---- MODULE Spec2Model ----
(***************************************************************************)
(* Model of src/app.py (solar-spots-lab): the SolarAnalyzer physics        *)
(* functions (planck_law, calculate_spot_temperature), the Wien peak       *)
(* computation of main, and the solar disk generator create_solar_image.   *)
(*                                                                         *)
(* Number format.  The program computes in IEEE doubles; TLC has 32-bit    *)
(* integers.  A real value v is held as the integer v * ONE (four decimal  *)
(* digits), a percentage as p * PCT.  Each arithmetic operation rounds its *)
(* exact result to the format the way the double operation does (to        *)
(* nearest), except the in-place product x *= q with 0 <= q <= 1, which    *)
(* rounds down: in doubles x * q < x for every normal x > 0 and q < 1, and *)
(* rounding down is the fixed-point rounding with that order property.     *)
(***************************************************************************)
EXTENDS Integers, Sequences, FiniteSets, TLC

VARIABLES
    num_spots,        \* create_solar_image parameter (slider 1..5)
    spot_intensity,   \* create_solar_image parameter, percent * PCT
    spot_size,        \* create_solar_image parameter (slider 3..20)
    pc,               \* position in create_solar_image
    solar_disk,       \* the image under construction: [Cells -> value * ONE]
    i,                \* loop variable of "for i in range(num_spots)"
    granulation,      \* the noise array drawn by the current call
    rng,              \* state of NumPy's global random generator
    calls,            \* number of calls of create_solar_image started
    prev_disk,        \* grid returned by the previous call
    prev_granulation, \* noise array drawn by the previous call
    angle,            \* loop local: polar angle of the current spot, radians * ONE
    distance,         \* loop local: distance of the current spot from the centre
    rpc,              \* position in the radiation computations of main
    intensity_percent,\* argument of calculate_spot_temperature, percent * PCT
    spot_temp,        \* its result, kelvin * ONE
    pow_evals,        \* number of evaluations of "intensity_ratio ** 0.25"
    wavelength,       \* planck_law argument: array of wavelengths, nm
    temperature,      \* planck_law argument, kelvin
    result,           \* planck_law result: array of relative radiances * ONE
    wavelength_spot,  \* Wien peak of the spot, nm * 10
    error,            \* exception raised, or "none"
    photosphere_spectrum, \* create_interactive_plots: normalised spectrum at 5778 K
    spot_spectrum,    \* create_interactive_plots: normalised spectrum of the spot
    mpc,              \* position in main's rendering flow
    idx,              \* loop variable of the gallery loop of main
    outcome,          \* outcome of each image fetch: 0 highlight, 1..4 gallery
    shown,            \* what each image slot displays
    tabs              \* the tabs whose body has been rendered

imgvars == <<num_spots, spot_intensity, spot_size, pc, solar_disk, i,
             granulation, rng, calls, prev_disk, prev_granulation, angle, distance>>

radvars == <<rpc, intensity_percent, spot_temp, pow_evals, wavelength, temperature,
             result, wavelength_spot, error, photosphere_spectrum, spot_spectrum>>

mainvars == <<mpc, idx, outcome, shown, tabs>>

vars == <<imgvars, radvars, mainvars>>

----------------------------------------------------------------------------
(* Number format *)

ONE == 10^4          \* fixed-point unit: 1.0
PCT == 10^2          \* percent unit: 1 %
PI  == 31416         \* pi * ONE

Abs(a) == IF a < 0 THEN -a ELSE a
Max(a, b) == IF a >= b THEN a ELSE b
Sign(a) == IF a < 0 THEN -1 ELSE IF a > 0 THEN 1 ELSE 0

\* a / b rounded to the nearest integer (b > 0)
RoundDiv(a, b) == (2 * a + b) \div (2 * b)

\* floor of the square root, by bisection: lo^2 <= n < hi^2
RECURSIVE SqrtIter(_, _, _)
SqrtIter(n, lo, hi) ==
    IF hi - lo <= 1 THEN lo
    ELSE LET mid == (lo + hi) \div 2
         IN  IF mid * mid <= n THEN SqrtIter(n, mid, hi) ELSE SqrtIter(n, lo, mid)

ISqrt(n) == SqrtIter(n, 0, 46341)

\* square root rounded to nearest
SqrtNearest(n) == LET s == ISqrt(n) IN IF n - s * s > s THEN s + 1 ELSE s

\* next term of the sine series: term * t^2 / ((2k)(2k+1))
SinTerm(term, t2, k) == RoundDiv(term * t2, ONE * (2 * k) * (2 * k + 1))

\* sin on [0, pi/2], Taylor series to t^11
SinQuadrant(t) ==
    LET t2 == RoundDiv(t * t, ONE)
        a1 == t
        a2 == SinTerm(a1, t2, 1)
        a3 == SinTerm(a2, t2, 2)
        a4 == SinTerm(a3, t2, 3)
        a5 == SinTerm(a4, t2, 4)
        a6 == SinTerm(a5, t2, 5)
    IN  a1 - a2 + a3 - a4 + a5 - a6

\* np.sin / np.cos of an angle >= 0 given in radians * ONE
Sin(a) ==
    LET t == a % (2 * PI)
    IN  IF t <= PI \div 2 THEN SinQuadrant(t)
        ELSE IF t <= PI THEN SinQuadrant(PI - t)
        ELSE IF t <= PI + PI \div 2 THEN -SinQuadrant(t - PI)
        ELSE -SinQuadrant(2 * PI - t)

Cos(a) == Sin(a + PI \div 2)

----------------------------------------------------------------------------
(* Bounds of the model *)

size == 5            \* samples per axis (the program uses 400)
MaxSpots == 5        \* largest num_spots tried (the slider allows 1..5)
MaxCalls == 2        \* calls of create_solar_image in one process

\* spot_intensity values tried, percent * PCT, from the domain [0, 100]
Intensities == {0, 10 * PCT, 35 * PCT, 80 * PCT, 90 * PCT, 100 * PCT}
\* spot_size values tried (any value > 0 is allowed)
SpotSizes == {8, 18, 60}
\* standard-normal samples (* ONE) a cell of np.random.randn can take
RandnSamples == <<-3 * ONE, 0, 3 * ONE>>

----------------------------------------------------------------------------
(* create_solar_image.  The arrays that depend on the grid alone are written  *)
(* f @@ <<>>, which holds them as explicit tables and leaves the values as   *)
(* they are.                                                                 *)

Cells == (0 .. size - 1) \X (0 .. size - 1)      \* <<row, column>>

\* np.linspace(-1, 1, size)[j]
Linspace(j) == RoundDiv(-ONE * (size - 1) + 2 * ONE * j, size - 1)

\* x, y = np.meshgrid(linspace, linspace)
X(c) == Linspace(c[2])
Y(c) == Linspace(c[1])

\* r = np.sqrt(x**2 + y**2), computed once per cell
RGrid == [c \in Cells |-> SqrtNearest(X(c) * X(c) + Y(c) * Y(c))] @@ <<>>
R(c) == RGrid[c]

InsideDisk(c) == R(c) <= ONE

\* solar_disk = 1.0 - 0.6 * r**2 + 0.1 * np.sin(10*r);  solar_disk[r > 1] = 0
LimbDarkenedAt(c) ==
    LET r2 == RoundDiv(R(c) * R(c), ONE)
    IN  IF R(c) > ONE THEN 0
        ELSE ONE - RoundDiv(6 * r2, 10) + RoundDiv(Sin(10 * R(c)), 10)

LimbDarkenedGrid == [c \in Cells |-> LimbDarkenedAt(c)] @@ <<>>
LimbDarkened(c) == LimbDarkenedGrid[c]

\* np.random.randn(size, size) as a function of the generator state: the
\* cells with row + column even hold the sample a, the others the sample b
NumSeeds == Len(RandnSamples) * Len(RandnSamples)

Randn(seed) ==
    LET b == RandnSamples[(seed % Len(RandnSamples)) + 1]
        a == RandnSamples[((seed \div Len(RandnSamples)) % Len(RandnSamples)) + 1]
    IN  [c \in Cells |-> IF (c[1] + c[2]) % 2 = 0 THEN a ELSE b]

\* the generator state after drawing one array
NextSeed(seed) == (seed + 1) % NumSeeds

\* granulation = 0.05 * np.random.randn(size, size)
GranulationOf(seed) == [c \in Cells |-> RoundDiv(5 * Randn(seed)[c], 100)] @@ <<>>
GranulationTable == [seed \in 0 .. NumSeeds - 1 |-> GranulationOf(seed)] @@ <<>>
Granulation(seed) == GranulationTable[seed]

\* np.clip(v, 0, 1)   (ClipUnclipped: the clip left out)
ClipUnclipped(v) == v
Clip(v) == IF v < 0 THEN 0 ELSE IF v > ONE THEN ONE ELSE v

\* solar_disk[r <= 1] += granulation[r <= 1]
\* (AddGranulationEverywhere: the r <= 1 index left out;
\*  AddGranulationOntoPrevious: the array of the previous call used again)
AddGranulationEverywhere(c, g) == LimbDarkened(c) + g[c]
AddGranulationOntoPrevious(c, g) ==
    IF InsideDisk(c) THEN solar_disk[c] + g[c] ELSE LimbDarkened(c)
AddGranulation(c, g) == IF InsideDisk(c) THEN LimbDarkened(c) + g[c] ELSE LimbDarkened(c)

\* the disk before the spots: lines 161-167
Photosphere(g) == [c \in Cells |-> Clip(AddGranulation(c, g))]

\* spot_radius = spot_size / 120
SpotRadius(s) == RoundDiv(s * ONE, 120)

\* the denominators of the placement: max(1, num_spots) and max(1, num_spots-1)
\* (OffsetDenominatorUnclamped: num_spots-1 written for max(1, num_spots-1))
AngleDenominator(n) == Max(1, n)
OffsetDenominatorUnclamped(n) == n - 1
OffsetDenominator(n) == Max(1, n - 1)

\* angle = 2 * np.pi * i / max(1, num_spots)
SpotAngle(k, n) == RoundDiv(2 * PI * k, AngleDenominator(n))

\* distance = 0.4 + 0.3 * (i / max(1, num_spots-1))
BaselineDistance == RoundDiv(4 * ONE, 10)
SpotDistance(k, n) == BaselineDistance + RoundDiv(3 * ONE * k, 10 * OffsetDenominator(n))

SpotX(k, n) == RoundDiv(SpotDistance(k, n) * Cos(SpotAngle(k, n)), ONE)
SpotY(k, n) == RoundDiv(SpotDistance(k, n) * Sin(SpotAngle(k, n)), ONE)

\* spot_r = np.sqrt((x - spot_x)**2 + (y - spot_y)**2)
SpotRAt(c, k, n) ==
    LET dx == X(c) - SpotX(k, n)
        dy == Y(c) - SpotY(k, n)
    IN  SqrtNearest(dx * dx + dy * dy)

SpotRGrid ==
    [n \in 1 .. MaxSpots |->
        [k \in 0 .. n - 1 |-> [c \in Cells |-> SpotRAt(c, k, n)] @@ <<>>] @@ <<>>] @@ <<>>
SpotR(c, k, n) == SpotRGrid[n][k][c]

PenumbraOuter(s) == RoundDiv(SpotRadius(s) * 18, 10)

UmbraMask(c, k, n, s) == SpotR(c, k, n) < SpotRadius(s)

PenumbraMask(c, k, n, s) ==
    /\ SpotR(c, k, n) >= SpotRadius(s)
    /\ SpotR(c, k, n) < PenumbraOuter(s)

\* spot_intensity / 100
IntensityRatio(p) == RoundDiv(p * ONE, 100 * PCT)

\* np.interp(x, [x0, x1], [y0, y1]) for x0 <= x < x1
\* (InterpSwapped: the two values given in the opposite order)
InterpSwapped(x, x0, x1, y0, y1) == y1 + RoundDiv((y0 - y1) * (x - x0), x1 - x0)
Interp(x, x0, x1, y0, y1) == y0 + RoundDiv((y1 - y0) * (x - x0), x1 - x0)

\* penumbra_intensity at one cell
PenumbraIntensity(c, k, n, s, p) ==
    Interp(SpotR(c, k, n), SpotRadius(s), PenumbraOuter(s),
           IntensityRatio(p), RoundDiv(8 * ONE, 10))

\* x *= q for 0 <= q <= 1   (DarkenAssign: "=" written for "*=")
DarkenAssign(v, q) == q
Darken(v, q) == (v * q) \div ONE

\* the factor spot k applies to cell c
SpotFactor(c, k, n, s, p) ==
    IF UmbraMask(c, k, n, s) THEN IntensityRatio(p)
    ELSE IF PenumbraMask(c, k, n, s) THEN PenumbraIntensity(c, k, n, s, p)
    ELSE ONE

\* one iteration of the loop: lines 173-191
\* (ApplySpotToBase: the spot multiplies the disk as it was before the loop,
\* not the current value of the cell)
ApplySpotToBase(disk, k, n, s, p) ==
    [c \in Cells |-> IF UmbraMask(c, k, n, s) \/ PenumbraMask(c, k, n, s)
                     THEN Darken(Clip(AddGranulation(c, granulation)),
                                 SpotFactor(c, k, n, s, p))
                     ELSE disk[c]]
ApplySpotTo(disk, k, n, s, p) ==
    [c \in Cells |-> IF UmbraMask(c, k, n, s) \/ PenumbraMask(c, k, n, s)
                     THEN Darken(disk[c], SpotFactor(c, k, n, s, p))
                     ELSE disk[c]]

NoDisk == [c \in Cells |-> 0]

\* load_solar_images: the gallery has four images
NumGalleryImages == 4
\* image slots: 0 is the highlight image of the first tab, 1..4 the gallery
Slots == 0 .. NumGalleryImages

\* main, not started
MainIdle ==
    /\ mpc = "off"
    /\ idx = 0
    /\ outcome = [s \in Slots |-> "pending"]
    /\ shown = [s \in Slots |-> "nothing"]
    /\ tabs = {}

\* the radiation computations, not started
RadiationIdle ==
    /\ rpc = "off"
    /\ intensity_percent = 0
    /\ spot_temp = 0
    /\ pow_evals = 0
    /\ wavelength = <<>>
    /\ temperature = 0
    /\ result = <<>>
    /\ wavelength_spot = 0
    /\ error = "none"
    /\ photosphere_spectrum = <<>>
    /\ spot_spectrum = <<>>

Init ==
    /\ RadiationIdle
    /\ MainIdle
    /\ num_spots \in 1 .. MaxSpots
    /\ spot_intensity \in Intensities
    /\ spot_size \in SpotSizes
    /\ pc = "start"
    /\ solar_disk = NoDisk
    /\ i = 0
    /\ granulation = NoDisk
    /\ rng \in 0 .. NumSeeds - 1
    /\ calls = 1
    /\ prev_disk = NoDisk
    /\ prev_granulation = NoDisk
    /\ angle = 0
    /\ distance = 0

\* lines 156-170: the grid, the limb-darkened disk, the granulation, the clip
Generate ==
    /\ pc = "start"
    /\ granulation' = Granulation(rng)
    /\ rng' = NextSeed(rng)
    /\ solar_disk' = Photosphere(Granulation(rng))
    /\ i' = 0
    /\ pc' = "spots"
    /\ UNCHANGED <<num_spots, spot_intensity, spot_size, calls, prev_disk, prev_granulation,
                   angle, distance>>
    /\ UNCHANGED radvars
    /\ UNCHANGED mainvars

\* lines 172-191: one iteration of "for i in range(num_spots)"; a division by
\* zero in line 173 or 174 raises ZeroDivisionError out of create_solar_image
ApplySpot ==
    /\ pc = "spots"
    /\ i < num_spots
    /\ IF AngleDenominator(num_spots) = 0 \/ OffsetDenominator(num_spots) = 0
       THEN /\ pc' = "raised"
            /\ UNCHANGED <<solar_disk, i, angle, distance>>
       ELSE /\ angle' = SpotAngle(i, num_spots)
            /\ distance' = SpotDistance(i, num_spots)
            /\ solar_disk' = ApplySpotTo(solar_disk, i, num_spots, spot_size, spot_intensity)
            /\ i' = i + 1
            /\ pc' = pc
    /\ UNCHANGED <<num_spots, spot_intensity, spot_size, granulation, rng, calls,
                   prev_disk, prev_granulation>>
    /\ UNCHANGED radvars
    /\ UNCHANGED mainvars

\* line 193: return solar_disk
Return ==
    /\ pc = "spots"
    /\ i >= num_spots
    /\ pc' = "done"
    /\ UNCHANGED <<num_spots, spot_intensity, spot_size, solar_disk, i, granulation, rng,
                   calls, prev_disk, prev_granulation, angle, distance>>
    /\ UNCHANGED radvars
    /\ UNCHANGED mainvars

\* Streamlit runs main again in the same process (a widget event); the sliders
\* keep their values and create_interactive_plots calls create_solar_image again
Rerun ==
    /\ pc = "done"
    /\ calls < MaxCalls
    /\ calls' = calls + 1
    /\ prev_disk' = solar_disk
    /\ prev_granulation' = granulation
    /\ pc' = "start"
    /\ UNCHANGED <<num_spots, spot_intensity, spot_size, solar_disk, i, granulation, rng,
                   angle, distance>>
    /\ UNCHANGED radvars
    /\ UNCHANGED mainvars

Next == Generate \/ ApplySpot \/ Return \/ Rerun

Spec == Init /\ [][Next]_vars

----------------------------------------------------------------------------
(* Radiation model: calculate_spot_temperature, planck_law, Wien peak *)

SUN_TEMPERATURE == 5778          \* kelvin
WIEN_CONSTANT == 2898            \* 2.898e-3 m K, in micrometre kelvin

\* intensity_percent values tried, percent * PCT (99.99 % is one step below 100 %)
IntensityInputs ==
    {-50 * PCT, -1, 0, 1, 10 * PCT, 35 * PCT, 50 * PCT, 80 * PCT, 99 * PCT,
     100 * PCT - 1, 100 * PCT}
\* planck_law wavelengths tried, nm
Wavelengths == {-500, 0, 300, 500, 1100}
\* planck_law temperatures tried besides the spot temperature, kelvin
PlanckTemperatures == {-SUN_TEMPERATURE, 0, SUN_TEMPERATURE}
ArrayLen == 2                    \* length of the wavelength array

\* "if intensity_percent <= 0: return 0"   (NotPositiveStrict: "<" for "<=")
NotPositiveStrict(p) == p < 0
NotPositive(p) == p <= 0

\* x ** 0.25 for 0 <= x <= 1, rounded to nearest: two square roots carried with
\* two guard bits
Pow025(x) ==
    LET s1 == SqrtNearest(x * ONE * 16)
        s2 == SqrtNearest(s1 * ONE * 4)
    IN  RoundDiv(s2, 4)

\* SUN_TEMPERATURE * (intensity_ratio ** 0.25), kelvin * ONE
\* (StefanBoltzmannDivided: "/" written for "*")
StefanBoltzmannDivided(ratio) == ((SUN_TEMPERATURE * ONE) \div Max(1, Pow025(ratio))) * ONE
StefanBoltzmann(ratio) == SUN_TEMPERATURE * Pow025(ratio)

\* (WIEN_CONSTANT / T) * 1e9 in nm * 10, for T in kelvin * ONE, T # 0
\* (WienPeakWrongUnit: 1e8 written for 1e9)
WienPeakWrongUnit(t) == RoundDiv(WIEN_CONSTANT * 10^4, RoundDiv(t, 10^3))
WienPeak(t) == RoundDiv(WIEN_CONSTANT * 10^5, RoundDiv(t, 10^3))

\* planck_law: the infinities of the double format
POS_INF == 2^30
NEG_INF == -(2^30)

\* h * c / k = 6.626e-34 * 3.0e8 / 1.381e-23 m K, in nm K
HC_OVER_K == RoundDiv(6626 * 3 * 10^4, 1381) * 100

\* wavelength * k * temperature is -0.0
NegativeZero(lambda, t) == (lambda < 0 /\ t = 0) \/ (lambda = 0 /\ t < 0)

\* exponent = h * c / (wavelength * k * temperature), * 10
Exponent(lambda, t) ==
    IF lambda * t = 0
    THEN IF NegativeZero(lambda, t) THEN NEG_INF ELSE POS_INF
    ELSE Sign(lambda * t) * RoundDiv(HC_OVER_K * 10, Abs(lambda * t))

\* mask = (exponent > 700) | (wavelength < 1e-10)
PlanckMask(lambda, t) == Exponent(lambda, t) > 700 * 10 \/ lambda * 10 < 1

\* base ** n in fixed point
RECURSIVE PowFix(_, _)
PowFix(base, n) == IF n = 0 THEN ONE ELSE RoundDiv(base * PowFix(base, n - 1), ONE)

\* exp(-a) * ONE for a >= 0 given * 10; below the resolution of the format
\* from a = 10 on
ExpNeg(a) ==
    IF a > 100 THEN 0
    ELSE RoundDiv(PowFix(3679, a \div 10) * PowFix(9048, a % 10), ONE)

\* 1 / (np.exp(exponent) - 1), * ONE, with exp(e) = 1 / exp(-e)
Bose(e) ==
    IF e = POS_INF THEN 0
    ELSE IF e = NEG_INF THEN -ONE
    ELSE IF e = 0 THEN POS_INF
    ELSE IF e > 0 THEN RoundDiv(ExpNeg(e) * ONE, ONE - ExpNeg(e))
    ELSE -RoundDiv(ONE * ONE, ONE - ExpNeg(-e))

\* 2 * h * c**2 / wavelength**5 relative to its value at 1000 nm, * 100
\* (wavelength >= 1 nm)
Prefactor(lambda) ==
    LET q == RoundDiv(1000 * 100, lambda)
        q2 == RoundDiv(q * q, 100)
        q3 == RoundDiv(q2 * q, 100)
        q4 == RoundDiv(q3 * q, 100)
    IN  RoundDiv(q4 * q, 100)

\* one element of the returned array: the product, then "result[mask] = 0".
\* A NaN arises only where wavelength = 0, an element the mask has zeroed, so
\* "result[np.isnan(result)] = 0" changes no element.
PlanckElement(lambda, t) ==
    IF PlanckMask(lambda, t) THEN 0
    ELSE IF Bose(Exponent(lambda, t)) = POS_INF THEN POS_INF
    ELSE LET b == Bose(Exponent(lambda, t))
         IN  Sign(b) * RoundDiv(Prefactor(lambda) * Abs(b), 100)

planck_law(w, t) == [j \in DOMAIN w |-> PlanckElement(w[j], t)]

\* create_interactive_plots: wavelengths = np.linspace(300, 1100, 200), nm
NumWavelengths == 5              \* samples of the spectrum (the program uses 200)
SpectrumWavelengths ==
    [j \in 1 .. NumWavelengths |-> 300 + RoundDiv(800 * (j - 1), NumWavelengths - 1)]

RECURSIVE MaxFrom(_, _)
MaxFrom(a, j) == IF j = Len(a) THEN a[j] ELSE Max(a[j], MaxFrom(a, j + 1))
RECURSIVE MinFrom(_, _)
MinFrom(a, j) == IF j = Len(a) THEN a[j] ELSE -Max(-a[j], -MinFrom(a, j + 1))

\* np.max(a), np.min(a)
ArrayMax(a) == MaxFrom(a, 1)
ArrayMin(a) == MinFrom(a, 1)

\* "np.max(spectrum) if np.max(spectrum) > 0 else 1"
\* (DivisorFromMin: np.min written for np.max)
DivisorFromMin(a) == IF ArrayMin(a) > 0 THEN ArrayMin(a) ELSE ONE
Divisor(a) == IF ArrayMax(a) > 0 THEN ArrayMax(a) ELSE ONE

\* spectrum /= divisor
Normalized(a) == [j \in DOMAIN a |-> RoundDiv(a[j] * ONE, Divisor(a))]

\* the temperature in kelvin handed to planck_law
Kelvin(t) == RoundDiv(t, ONE)

InitRadiation ==
    /\ MainIdle
    /\ rpc = "input"
    /\ intensity_percent \in IntensityInputs
    /\ spot_temp = 0
    /\ pow_evals = 0
    /\ wavelength = <<>>
    /\ temperature = 0
    /\ result = <<>>
    /\ wavelength_spot = 0
    /\ error = "none"
    /\ photosphere_spectrum = <<>>
    /\ spot_spectrum = <<>>
    /\ num_spots = 1
    /\ spot_intensity = intensity_percent
    /\ spot_size = 8
    /\ pc = "off"
    /\ solar_disk = NoDisk
    /\ i = 0
    /\ granulation = NoDisk
    /\ rng = 0
    /\ calls = 0
    /\ prev_disk = NoDisk
    /\ prev_granulation = NoDisk
    /\ angle = 0
    /\ distance = 0

\* lines 147-152
CalcSpotTemperature ==
    /\ rpc = "input"
    /\ IF NotPositive(intensity_percent)
       THEN /\ spot_temp' = 0
            /\ pow_evals' = pow_evals
       ELSE /\ spot_temp' = StefanBoltzmann(IntensityRatio(intensity_percent))
            /\ pow_evals' = pow_evals + 1
    /\ rpc' = "temp"
    /\ UNCHANGED <<intensity_percent, wavelength, temperature, result, wavelength_spot, error,
                   photosphere_spectrum, spot_spectrum>>
    /\ UNCHANGED imgvars
    /\ UNCHANGED mainvars

\* lines 133-145, called with an array of wavelengths and one temperature
PlanckLaw ==
    /\ rpc = "temp"
    /\ \E w \in [1 .. ArrayLen -> Wavelengths],
          t \in PlanckTemperatures \cup {RoundDiv(spot_temp, ONE)} :
          /\ wavelength' = w
          /\ temperature' = t
          /\ result' = planck_law(w, t)
    /\ rpc' = "planck"
    /\ UNCHANGED <<intensity_percent, spot_temp, pow_evals, wavelength_spot, error,
                   photosphere_spectrum, spot_spectrum>>
    /\ UNCHANGED imgvars
    /\ UNCHANGED mainvars

\* lines 525-527: wavelength_spot = (WIEN_CONSTANT / spot_temp) * 1e9
WienPeakWavelength ==
    /\ rpc = "planck"
    /\ IF spot_temp = 0
       THEN /\ error' = "ZeroDivisionError"
            /\ wavelength_spot' = wavelength_spot
            /\ rpc' = "raised"
       ELSE /\ error' = error
            /\ wavelength_spot' = WienPeak(spot_temp)
            /\ rpc' = "wien"
    /\ UNCHANGED <<intensity_percent, spot_temp, pow_evals, wavelength, temperature, result,
                   photosphere_spectrum, spot_spectrum>>
    /\ UNCHANGED imgvars
    /\ UNCHANGED mainvars

\* lines 199-205 of create_interactive_plots: the two normalised spectra
NormalizedSpectra ==
    /\ rpc = "temp"
    /\ photosphere_spectrum' = Normalized(planck_law(SpectrumWavelengths, SUN_TEMPERATURE))
    /\ spot_spectrum' = Normalized(planck_law(SpectrumWavelengths, Kelvin(spot_temp)))
    /\ rpc' = "spectra"
    /\ UNCHANGED <<intensity_percent, spot_temp, pow_evals, wavelength, temperature, result,
                   wavelength_spot, error>>
    /\ UNCHANGED imgvars
    /\ UNCHANGED mainvars

NextRadiation == CalcSpotTemperature \/ PlanckLaw \/ WienPeakWavelength \/ NormalizedSpectra

SpecRadiation == InitRadiation /\ [][NextRadiation]_vars

----------------------------------------------------------------------------
(* main: the rendering flow of one run of the script, lines 364-728 *)

\* values of the slider "Intensidade da Mancha (%)" (10..80), percent * PCT
SliderIntensities == {10 * PCT, 35 * PCT, 80 * PCT}

\* outcomes of "requests.get(url)" followed by "Image.open(...)": the image,
\* an exception of requests.get, an exception of Image.open (the response is
\* not an image, such as the page of an HTTP error)
FetchOutcomes == {"ok", "ConnectionError", "UnidentifiedImageError"}

\* lines 475-490: the image, or in "except:" the matplotlib figure drawn here
HighlightShown(o) == IF o = "ok" THEN "image" ELSE "pyplot_figure"

\* lines 631-639: the image, or in "except Exception" st.error and st.image of
\* the URL https://via.placeholder.com/400x300/...
GalleryShown(o) == IF o = "ok" THEN "image" ELSE "placeholder_url"

InitMain ==
    /\ mpc = "sidebar"
    /\ idx = 0
    /\ outcome = [s \in Slots |-> "pending"]
    /\ shown = [s \in Slots |-> "nothing"]
    /\ tabs = {}
    /\ rpc = "off"
    /\ intensity_percent \in SliderIntensities
    /\ spot_temp = 0
    /\ pow_evals = 0
    /\ wavelength = <<>>
    /\ temperature = 0
    /\ result = <<>>
    /\ wavelength_spot = 0
    /\ error = "none"
    /\ photosphere_spectrum = <<>>
    /\ spot_spectrum = <<>>
    /\ num_spots = 1
    /\ spot_intensity = intensity_percent
    /\ spot_size = 8
    /\ pc = "off"
    /\ solar_disk = NoDisk
    /\ i = 0
    /\ granulation = NoDisk
    /\ rng = 0
    /\ calls = 0
    /\ prev_disk = NoDisk
    /\ prev_granulation = NoDisk
    /\ angle = 0
    /\ distance = 0

\* lines 377-432: the sidebar; line 401 computes spot_temp
Sidebar ==
    /\ mpc = "sidebar"
    /\ IF NotPositive(intensity_percent)
       THEN /\ spot_temp' = 0
            /\ pow_evals' = pow_evals
       ELSE /\ spot_temp' = StefanBoltzmann(IntensityRatio(intensity_percent))
            /\ pow_evals' = pow_evals + 1
    /\ mpc' = "tab1"
    /\ UNCHANGED <<idx, outcome, shown, tabs>>
    /\ UNCHANGED <<rpc, intensity_percent, wavelength, temperature, result, wavelength_spot,
                   error, photosphere_spectrum, spot_spectrum>>
    /\ UNCHANGED imgvars

\* lines 436-490: the first tab; the fetch of the highlight image in try/except
Tab1Highlight ==
    /\ mpc = "tab1"
    /\ \E o \in FetchOutcomes :
          /\ outcome' = [outcome EXCEPT ![0] = o]
          /\ shown' = [shown EXCEPT ![0] = HighlightShown(o)]
    /\ tabs' = tabs \cup {"tab1"}
    /\ mpc' = "tab2"
    /\ UNCHANGED idx
    /\ UNCHANGED radvars
    /\ UNCHANGED imgvars

\* lines 492-544: the second tab.  create_interactive_plots catches every
\* exception of its body (line 348); line 527 divides by spot_temp outside any
\* try, and a ZeroDivisionError there ends the run of main
Tab2Simulation ==
    /\ mpc = "tab2"
    /\ IF spot_temp = 0
       THEN /\ error' = "ZeroDivisionError"
            /\ mpc' = "raised"
            /\ UNCHANGED <<wavelength_spot, tabs>>
       ELSE /\ wavelength_spot' = WienPeak(spot_temp)
            /\ tabs' = tabs \cup {"tab2"}
            /\ mpc' = "tab3"
            /\ UNCHANGED error
    /\ UNCHANGED <<idx, outcome, shown>>
    /\ UNCHANGED <<rpc, intensity_percent, spot_temp, pow_evals, wavelength, temperature,
                   result, photosphere_spectrum, spot_spectrum>>
    /\ UNCHANGED imgvars

\* lines 546-628: the third tab, then the head of the fourth
Tab3Theory ==
    /\ mpc = "tab3"
    /\ tabs' = tabs \cup {"tab3"}
    /\ idx' = 0
    /\ mpc' = "tab4"
    /\ UNCHANGED <<outcome, shown>>
    /\ UNCHANGED radvars
    /\ UNCHANGED imgvars

\* lines 629-639: one iteration of the gallery loop
Tab4Gallery ==
    /\ mpc = "tab4"
    /\ idx < NumGalleryImages
    /\ \E o \in FetchOutcomes :
          /\ outcome' = [outcome EXCEPT ![idx + 1] = o]
          /\ shown' = [shown EXCEPT ![idx + 1] = GalleryShown(o)]
    /\ idx' = idx + 1
    /\ UNCHANGED <<mpc, tabs>>
    /\ UNCHANGED radvars
    /\ UNCHANGED imgvars

\* the gallery loop is over; lines 641-728: the fifth tab, and main returns
Tab5Activities ==
    /\ mpc = "tab4"
    /\ idx >= NumGalleryImages
    /\ tabs' = tabs \cup {"tab4", "tab5"}
    /\ mpc' = "end"
    /\ UNCHANGED <<idx, outcome, shown>>
    /\ UNCHANGED radvars
    /\ UNCHANGED imgvars

NextMain ==
    Sidebar \/ Tab1Highlight \/ Tab2Simulation \/ Tab3Theory \/ Tab4Gallery \/ Tab5Activities

\* main is one sequential script: the interpreter runs its next statement, and
\* a fetch ends with one of its outcomes
SpecMain == InitMain /\ [][NextMain]_vars /\ WF_vars(NextMain)

----------------------------------------------------------------------------
(* Properties of create_solar_image, checked under Spec *)

Returned == pc = "done"

\* the disk of the current call before its spots were applied
Before(c) == Clip(AddGranulation(c, granulation))

Covered(c, k) ==
    \/ UmbraMask(c, k, num_spots, spot_size)
    \/ PenumbraMask(c, k, num_spots, spot_size)

\* C1: for every num_spots >= 1, spot_intensity in [0, 100] and spot_size > 0
\* the call returns, and every cell of the returned grid is in [0, 1].
C1_ReturnedGridInUnitRange ==
    Returned => \A c \in Cells : solar_disk[c] >= 0 /\ solar_disk[c] <= ONE

\* a returned grid in which the clip cut a cell back to 1 and a spot darkened a cell
C1_Witness ==
    /\ Returned
    /\ \E c \in Cells : AddGranulation(c, granulation) > ONE
    /\ \E c \in Cells : solar_disk[c] < Before(c)

DiskCells == {c \in Cells : InsideDisk(c)}
UmbraCells == {c \in Cells : UmbraMask(c, 0, num_spots, spot_size)}

\* C8 as stated: with one sunspot the minimum of the disk is at an umbra cell
\* and is strictly less than every penumbra and photosphere cell.
C8_MinimumInUmbra ==
    (Returned /\ num_spots = 1 /\ UmbraCells # {}) =>
        \E u \in UmbraCells :
            /\ \A c \in DiskCells : solar_disk[u] <= solar_disk[c]
            /\ \A c \in DiskCells \ UmbraCells : solar_disk[u] < solar_disk[c]

\* C8 amended: with one sunspot every umbra cell holds its value before the
\* spot times spot_intensity / 100, and is strictly darker than before the
\* spot when that value was not 0 and spot_intensity < 100.
C8_UmbraDarkerThanBefore ==
    (Returned /\ num_spots = 1) =>
        \A u \in UmbraCells :
            /\ solar_disk[u] = (Before(u) * IntensityRatio(spot_intensity)) \div ONE
            /\ (Before(u) > 0 /\ spot_intensity < 100 * PCT) => solar_disk[u] < Before(u)

\* one spot whose umbra cell is darker than before while a cell of the disk
\* outside the umbra is darker still
C8_Witness ==
    /\ Returned
    /\ num_spots = 1
    /\ spot_intensity < 100 * PCT
    /\ \E u \in UmbraCells :
          /\ Before(u) > 0
          /\ solar_disk[u] < Before(u)
          /\ \E c \in DiskCells \ UmbraCells : solar_disk[c] < solar_disk[u]

\* C9: every cell of the returned grid with r > 1 is exactly 0.
C9_BackgroundZero ==
    Returned => \A c \in Cells : R(c) > ONE => solar_disk[c] = 0

\* a background cell that drew non-zero noise and lies under a spot
C9_Witness ==
    /\ Returned
    /\ \E c \in Cells :
          /\ R(c) > ONE
          /\ granulation[c] # 0
          /\ \E k \in 0 .. num_spots - 1 : Covered(c, k)
          /\ solar_disk[c] = 0

\* C10: with spot_intensity = 0 every cell inside the umbra of an applied spot
\* is exactly 0, also after later spots were applied over it.
C10_DarkUmbra ==
    (pc \in {"spots", "done"} /\ spot_intensity = 0) =>
        \A k \in 0 .. i - 1 : \A c \in Cells :
            UmbraMask(c, k, num_spots, spot_size) => solar_disk[c] = 0

\* a cell that was not 0, in the umbra of one spot and under a later spot
C10_Witness ==
    /\ Returned
    /\ spot_intensity = 0
    /\ \E c \in Cells : \E k \in 0 .. num_spots - 1 :
          /\ UmbraMask(c, k, num_spots, spot_size)
          /\ Before(c) > 0
          /\ solar_disk[c] = 0
          /\ \E l \in k + 1 .. num_spots - 1 : PenumbraMask(c, l, num_spots, spot_size)

----------------------------------------------------------------------------
(* Properties of the radiation model, checked under SpecRadiation *)

TemperatureComputed == rpc \in {"temp", "planck", "wien", "raised", "spectra"}

\* C2 as stated: the spot temperature is strictly below 5778 for every
\* intensity in (0, 100), and 5778 at 100.
C2_StrictlyBelowSun ==
    TemperatureComputed =>
        /\ (0 < intensity_percent /\ intensity_percent < 100 * PCT)
              => spot_temp < SUN_TEMPERATURE * ONE
        /\ intensity_percent = 100 * PCT => spot_temp = SUN_TEMPERATURE * ONE

\* C2 amended: the spot temperature is at most 5778 for every intensity in
\* (0, 100), strictly below 5778 for every intensity in (0, 99], and 5778 at 100.
C2_AtMostSun ==
    TemperatureComputed =>
        /\ (0 < intensity_percent /\ intensity_percent < 100 * PCT)
              => spot_temp <= SUN_TEMPERATURE * ONE
        /\ (0 < intensity_percent /\ intensity_percent <= 99 * PCT)
              => spot_temp < SUN_TEMPERATURE * ONE
        /\ intensity_percent = 100 * PCT => spot_temp = SUN_TEMPERATURE * ONE

\* an intensity below 100 whose fourth root rounds to 1
C2_Witness ==
    /\ rpc = "temp"
    /\ 0 < intensity_percent
    /\ intensity_percent < 100 * PCT
    /\ spot_temp = SUN_TEMPERATURE * ONE

\* C3: for every intensity <= 0 the result is 0 and the fractional power is
\* not evaluated.
C3_GuardedAtZero ==
    (TemperatureComputed /\ intensity_percent <= 0) => (spot_temp = 0 /\ pow_evals = 0)

\* the call returned for intensity 0
C3_Witness ==
    /\ rpc = "temp"
    /\ intensity_percent = 0
    /\ spot_temp = 0

WienComputed == rpc \in {"wien", "raised"}

\* C4 as stated: at intensity 35 the temperature is within 1 K of 4304 K and
\* the Wien peak within 2 nm of 673 nm.
C4_RoundTrip4304 ==
    (WienComputed /\ intensity_percent = 35 * PCT) =>
        /\ error = "none"
        /\ Abs(spot_temp - 4304 * ONE) <= ONE
        /\ Abs(wavelength_spot - 673 * 10) <= 2 * 10

\* C4 amended: at intensity 35 the temperature is within 1 K of 4444 K and the
\* Wien peak within 2 nm of 652 nm.
C4_RoundTrip4444 ==
    (WienComputed /\ intensity_percent = 35 * PCT) =>
        /\ error = "none"
        /\ Abs(spot_temp - 4444 * ONE) <= ONE
        /\ Abs(wavelength_spot - 652 * 10) <= 2 * 10

\* the Wien peak was computed from the temperature at intensity 35
C4_Witness ==
    /\ rpc = "wien"
    /\ intensity_percent = 35 * PCT
    /\ spot_temp > 0
    /\ wavelength_spot > 0

PlanckComputed == rpc \in {"planck", "wien", "raised"}

\* C6: every element planck_law returns is non-negative and finite, and is 0
\* where the exponent exceeds 700 or the wavelength is below 1e-10.
C6_PlanckNonNegative ==
    PlanckComputed =>
        \A j \in DOMAIN result :
            /\ result[j] >= 0
            /\ result[j] # POS_INF
            /\ PlanckMask(wavelength[j], temperature) => result[j] = 0

\* the spectra before the division
RawPhotosphere == planck_law(SpectrumWavelengths, SUN_TEMPERATURE)
RawSpot == planck_law(SpectrumWavelengths, Kelvin(spot_temp))
AllZero(a) == \A j \in DOMAIN a : a[j] = 0

\* C11: a spectrum that is not all-zero has maximum exactly 1 after the
\* normalisation; an all-zero spectrum is divided by 1 and left unchanged.
C11_NormalizedMaxIsOne ==
    rpc = "spectra" =>
        /\ ~AllZero(RawPhotosphere) => ArrayMax(photosphere_spectrum) = ONE
        /\ ~AllZero(RawSpot) => ArrayMax(spot_spectrum) = ONE
        /\ AllZero(RawSpot) => spot_spectrum = RawSpot
        /\ AllZero(RawPhotosphere) => photosphere_spectrum = RawPhotosphere
        /\ error = "none"

\* spot temperature 0: the spot spectrum is all-zero and left unchanged, the
\* photosphere spectrum is not all-zero and has maximum 1 after the division
C11_Witness ==
    /\ rpc = "spectra"
    /\ spot_temp = 0
    /\ AllZero(RawSpot)
    /\ Len(spot_spectrum) = NumWavelengths
    /\ spot_spectrum = RawSpot
    /\ ~AllZero(RawPhotosphere)
    /\ ArrayMax(RawPhotosphere) # ONE
    /\ ArrayMax(photosphere_spectrum) = ONE
    /\ \E j \in DOMAIN photosphere_spectrum :
          photosphere_spectrum[j] > 0 /\ photosphere_spectrum[j] < ONE

----------------------------------------------------------------------------
(* Placement of the spots *)

\* C12: the placement never divides by zero: for every num_spots >= 1 both
\* denominators are >= 1 and no iteration raises; with num_spots = 1 the single
\* spot is placed at angle 0 and at the baseline distance 0.4 (zero offset).
C12_PlacementNeverDividesByZero ==
    /\ pc # "raised"
    /\ AngleDenominator(num_spots) >= 1
    /\ OffsetDenominator(num_spots) >= 1
    /\ (pc \in {"spots", "done"} /\ num_spots = 1 /\ i = 1) =>
          /\ angle = 0
          /\ distance = BaselineDistance
          /\ SpotX(0, num_spots) = BaselineDistance
          /\ SpotY(0, num_spots) = 0

\* a call with one spot has returned; the spot was placed at angle 0, distance
\* 0.4 and darkened a cell of its umbra
C12_Witness ==
    /\ Returned
    /\ num_spots = 1
    /\ i = 1
    /\ angle = 0
    /\ distance = BaselineDistance
    /\ \E c \in Cells : UmbraMask(c, 0, num_spots, spot_size) /\ solar_disk[c] < Before(c)

----------------------------------------------------------------------------
(* Overlapping spots *)

\* v times the factors of the spots k, k+1, ..., last-1 at cell c, multiplied
\* in ascending order of the index
RECURSIVE ProductOfFactors(_, _, _, _)
ProductOfFactors(v, c, k, last) ==
    IF k >= last THEN v
    ELSE ProductOfFactors((v * SpotFactor(c, k, num_spots, spot_size, spot_intensity)) \div ONE,
                          c, k + 1, last)

\* the spots applied so far that cover cell c
CoveringSpots(c) == {k \in 0 .. i - 1 : Covered(c, k)}

\* C13: the spots are applied in ascending index order, each multiplying the
\* current value of the cell: after the spots 0 .. i-1 (all of them when the
\* call has returned) every cell holds its clipped base value times the product
\* of the factors of those spots, a cell no spot covers keeps its base value,
\* and the loop ends with exactly num_spots spots applied.
C13_ProductOfSpotFactors ==
    /\ pc \in {"spots", "done"} =>
          \A c \in Cells :
             /\ solar_disk[c] = ProductOfFactors(Before(c), c, 0, i)
             /\ CoveringSpots(c) = {} => solar_disk[c] = Before(c)
    /\ Returned => i = num_spots

\* a returned grid with a cell inside the umbra of spot 0 and the penumbra of
\* spot 1: it was darkened twice and is darker than either spot alone makes it
C13_Witness ==
    /\ Returned
    /\ num_spots >= 2
    /\ \E c \in Cells :
          /\ UmbraMask(c, 0, num_spots, spot_size)
          /\ PenumbraMask(c, 1, num_spots, spot_size)
          /\ Cardinality(CoveringSpots(c)) >= 2
          /\ solar_disk[c] = ProductOfFactors(Before(c), c, 0, num_spots)
          /\ solar_disk[c] < ProductOfFactors(Before(c), c, 0, 1)
          /\ solar_disk[c] < ProductOfFactors(Before(c), c, 1, 2)

----------------------------------------------------------------------------
(* Penumbra *)

\* the cells in the penumbra of spot k
PenumbraCells(k) == {c \in Cells : PenumbraMask(c, k, num_spots, spot_size)}

\* the factor the penumbra of spot k applies at cell c
PenumbraFactor(c, k) == PenumbraIntensity(c, k, num_spots, spot_size, spot_intensity)

\* C14: for every spot_intensity in [0, 100] the penumbra factor goes linearly
\* from spot_intensity/100 at distance spot_radius up to 0.8 at distance
\* 1.8 * spot_radius: over the penumbra of every spot applied it is
\* non-decreasing in the distance from the spot and never below the umbra
\* factor spot_intensity/100.
C14_PenumbraFactorNonDecreasing ==
    pc \in {"spots", "done"} =>
       \A k \in 0 .. i - 1 :
          /\ Interp(SpotRadius(spot_size), SpotRadius(spot_size), PenumbraOuter(spot_size),
                    IntensityRatio(spot_intensity), RoundDiv(8 * ONE, 10))
                = IntensityRatio(spot_intensity)
          /\ \A c \in PenumbraCells(k) :
                /\ PenumbraFactor(c, k) >= IntensityRatio(spot_intensity)
                /\ \A d \in PenumbraCells(k) :
                      SpotR(c, k, num_spots) <= SpotR(d, k, num_spots)
                         => PenumbraFactor(c, k) <= PenumbraFactor(d, k)


\* C14, amended: the same for every spot_intensity in [0, 80].
C14_NonDecreasingUpTo80 ==
    spot_intensity <= 80 * PCT => C14_PenumbraFactorNonDecreasing

\* a returned grid with spot_intensity <= 80 whose first spot has two penumbra
\* cells at different distances: the nearer has the smaller factor, and both
\* factors are above the umbra factor
C14_Witness ==
    /\ Returned
    /\ spot_intensity <= 80 * PCT
    /\ \E c, d \in PenumbraCells(0) :
          /\ SpotR(c, 0, num_spots) < SpotR(d, 0, num_spots)
          /\ IntensityRatio(spot_intensity) < PenumbraFactor(c, 0)
          /\ PenumbraFactor(c, 0) < PenumbraFactor(d, 0)
          /\ PenumbraFactor(d, 0) < RoundDiv(8 * ONE, 10)

----------------------------------------------------------------------------
(* Image fetches of main, checked under SpecMain *)

AllTabs == {"tab1", "tab2", "tab3", "tab4", "tab5"}
Failed(s) == outcome[s] \in FetchOutcomes \ {"ok"}
LocallyGenerated(d) == d = "pyplot_figure"

\* C15: whatever the outcome of each image fetch (the highlight image and the
\* four gallery images), a failed fetch is caught and replaced by a locally
\* generated placeholder image, and the flow continues: no exception leaves
\* main, and at the end every tab and every image slot has been rendered.
C15_FailedFetchReplacedLocally ==
    /\ mpc # "raised"
    /\ \A s \in Slots : Failed(s) => LocallyGenerated(shown[s])
    /\ mpc = "end" =>
          /\ tabs = AllTabs
          /\ \A s \in Slots : shown[s] # "nothing"

\* the part of C15 that holds of every slot: a failed fetch is caught and
\* something is shown in its place (the figure drawn locally for the highlight,
\* the image of the placeholder URL in the gallery), and the flow goes on
C15_FailedFetchCaught ==
    /\ mpc # "raised"
    /\ Failed(0) => shown[0] = "pyplot_figure"
    /\ \A s \in Slots \ {0} : Failed(s) => shown[s] = "placeholder_url"
    /\ mpc = "end" =>
          /\ tabs = AllTabs
          /\ \A s \in Slots : shown[s] # "nothing"

\* the flow eventually reaches its end
C15_FlowReachesEnd == <>(mpc = "end")

\* the flow has ended after the highlight fetch and a gallery fetch failed
C15_FailuresThenEnd ==
    /\ mpc = "end"
    /\ Failed(0)
    /\ \E s \in Slots \ {0} : Failed(s) /\ \E t \in Slots : t > s /\ shown[t] = "image"

====
